---------------------------- MODULE Spec2Model ----------------------------
(***************************************************************************)
(* Model of the dual-model prompt refinement loop,                         *)
(* OptimizationLoop.optimize_prompt (src/src/optimization/core/            *)
(* optimizer.py), as a state machine with one action per statement group   *)
(* between two Generation Client calls.                                    *)
(*                                                                         *)
(* Conventions.                                                            *)
(*  - A Python value that may be unbound, None or a dict {"response": t}   *)
(*    is a record [kind, response] with kind "unbound", "none" or "dict".  *)
(*  - Strings are TLA+ strings; len(s) is Len(s).                          *)
(*  - A float is an exact rational <<numerator, denominator>> in lowest    *)
(*    terms with a positive denominator.  Rounding of IEEE doubles is not  *)
(*    modelled.                                                            *)
(*  - created_at and metadata["duration"] of OptimizationResult are wall   *)
(*    clock readings and are left out of the record.                       *)
(*  - calls and evals are history variables: the Generation Client calls   *)
(*    issued so far and the outcome of every Evaluate step so far.         *)
(***************************************************************************)
EXTENDS Integers, Sequences, FiniteSets, TLC

VARIABLES
    prompt,                 \* argument prompt
    max_iterations,         \* argument max_iterations
    improvement_threshold,  \* argument improvement_threshold
    current_prompt,         \* local, optimizer.py:27
    best_score,             \* local, optimizer.py:28
    best_result,            \* local, optimizer.py:29
    iteration,              \* loop variable, optimizer.py:31 (-1: no round started)
    response,               \* local, optimizer.py:35
    optimization_result,    \* local, optimizer.py:44
    new_prompt,             \* local, optimizer.py:56
    new_response,           \* local, optimizer.py:57
    score,                  \* local, optimizer.py:63
    pc,                     \* position in optimize_prompt
    result,                 \* value returned to the caller
    exception,              \* exception raised to the caller ("" if none)
    calls,                  \* history: Generation Client calls issued
    evals,                  \* history: Evaluate steps taken
    \* Two calls of optimize_prompt against a deterministic Generation Service
    service,                \* the answers the service has given, per request
    run,                    \* 1: first call of optimize_prompt, 2: second
    first,                  \* outcome of the first call
    \* One invocation of a Generation Client's generate_response
    client,                 \* "OllamaAPI" or "AdvancedModelTester"
    cpc,                    \* position in generate_response
    transport,              \* what requests.post produced
    requests_sent,          \* outbound requests issued by this invocation
    returned,               \* value returned to the caller
    craised,                \* exception raised to the caller ("" if none)
    \* Concurrent profiling of a model pair
    harness,                \* "ModelTester" or "AdvancedModelTester"
    iterations,             \* number of pairs to run (argument iterations)
    hpc,                    \* position of the harness's main thread
    thread,                 \* per worker: "unstarted", "inflight" or "done"
    reply,                  \* per worker: what requests.post produced
    results,                \* per worker: the value it left for the main thread
    finished,               \* history: workers of this pair in order of completion
    concurrent_results,     \* the combined results recorded so far
    actual,                 \* history: per recorded pair, whether each call succeeded
    summary,                \* summary of test_concurrent_performance
    in_flight,              \* history: Generation calls issued and not yet ended
    \* One benchmark summary of AdvancedModelTester
    bench,                  \* "category", "concurrent" or "parameter"
    n_samples,              \* number of samples the benchmark collects
    samples,                \* the samples collected so far
    bpc,                    \* position in the benchmark
    bsummary,               \* the summary produced
    \* One benchmark run: run_full_benchmark / run_comprehensive_test
    models_to_test,         \* the list of models to test
    concurrent_combinations, \* the list of model pairs to test
    rpc,                    \* position in the run
    model_results,          \* self.results[model], in the order recorded
    pair_results,           \* self.results['concurrent'][key], in the order recorded
    model_actual,           \* history: whether the call of each model succeeded
    rexception,              \* exception that ended the run ("" if none)
    \* One call of calculate_quality_metrics
    q_words,                \* history: words of the response outside the two phrases
    q_unclear,              \* history: times the response says "unclear"
    q_phrases,              \* history: times the response says "I don't know"
    q_response,             \* argument response, as its words
    qpc,                    \* position in calculate_quality_metrics
    quality,                 \* the locals and the value returned
    \* Repeated calls of a score function on one pair of strings
    s_scorer,               \* the class whose _calculate_improvement is called
    s_a,                    \* first argument (original / initial response)
    s_b,                    \* second argument (new / final response)
    s_values,                \* history: the outcomes of the calls so far
    \* StorageManager: saves followed by one load_recent_results
    st_files,               \* the files optimization_*.json of responses_path
    st_saved,               \* history: the results saved, in the order saved
    st_limit,               \* argument limit of load_recent_results
    st_loaded,              \* the list load_recent_results returned
    stpc,                    \* "saving" or "loaded"
    \* The optimization request of one round of optimize_prompt
    rq_prompt,              \* current_prompt, as a sequence of words
    rq_task_type,           \* argument task_type of optimize_prompt
    rq_response,            \* response["response"] of the executor
    rq_templates,           \* the task types config/templates.yaml defines
    rq_request,             \* what _create_optimization_prompt returned
    rqpc                    \* "build" or "built"

loopVars == <<prompt, max_iterations, improvement_threshold, current_prompt,
              best_score, best_result, iteration, response,
              optimization_result, new_prompt, new_response, score, pc,
              result, exception, calls, evals>>

twiceVars == <<service, run, first>>

clientVars == <<client, cpc, transport, requests_sent, returned, craised>>

harnessVars == <<harness, iterations, hpc, thread, reply, results, finished,
                 concurrent_results, actual, summary, in_flight>>

summaryVars == <<bench, n_samples, samples, bpc, bsummary>>

runVars == <<models_to_test, concurrent_combinations, rpc, model_results, pair_results,
             model_actual, rexception>>

qualityVars == <<q_words, q_unclear, q_phrases, q_response, qpc, quality>>

scoreVars == <<s_scorer, s_a, s_b, s_values>>

storageVars == <<st_files, st_saved, st_limit, st_loaded, stpc>>

requestVars == <<rq_prompt, rq_task_type, rq_response, rq_templates,
                 rq_request, rqpc>>

vars == <<loopVars, twiceVars, clientVars, harnessVars, summaryVars, runVars, qualityVars, scoreVars, storageVars, requestVars>>

\* The groups added after harnessVars, left alone by the actions above.
otherVars == <<summaryVars, runVars, qualityVars, scoreVars, storageVars, requestVars>>

\* For each of these groups, the variables its specification leaves alone.
exceptSummary ==
    <<loopVars, twiceVars, clientVars, harnessVars,
      runVars, qualityVars, scoreVars, storageVars,
      requestVars>>

exceptRun ==
    <<loopVars, twiceVars, clientVars, summaryVars,
      qualityVars, scoreVars, storageVars, requestVars>>

exceptQuality ==
    <<loopVars, twiceVars, clientVars, harnessVars,
      summaryVars, runVars, scoreVars, storageVars,
      requestVars>>

exceptScore ==
    <<loopVars, twiceVars, clientVars, harnessVars,
      summaryVars, runVars, qualityVars, storageVars,
      requestVars>>

exceptStorage ==
    <<loopVars, twiceVars, clientVars, harnessVars,
      summaryVars, runVars, qualityVars, scoreVars,
      requestVars>>

exceptRequest ==
    <<loopVars, twiceVars, clientVars, harnessVars,
      summaryVars, runVars, qualityVars, scoreVars,
      storageVars>>

-----------------------------------------------------------------------------
(* Bounds and input sets *)

MaxIterations == 3

Prompts == {"Tell me about AI"}

\* Texts the executor model may answer with (lengths 0, 19, 20 and 57).
ExecutorTexts ==
    {"", "AI is a technology.", "AI is a technology.!",
     "Artificial intelligence is the simulation of human minds."}

\* Texts the optimizer model may answer with (the candidate prompts).
OptimizerTexts == {"Explain AI in depth"}

\* improvement_threshold values: 0.0, 0.1 (the default) and -0.1.
Thresholds == {<<0, 1>>, <<1, 10>>, <<-1, 10>>}

-----------------------------------------------------------------------------
(* Exact rationals standing for Python floats *)

RECURSIVE GCD(_, _)
GCD(a, b) == IF b = 0 THEN a ELSE GCD(b, a % b)

Abs(n) == IF n < 0 THEN -n ELSE n

Ratio(n, d) ==
    LET g == GCD(Abs(n), d) IN <<n \div g, d \div g>>

RatAdd(a, b) == Ratio(a[1] * b[2] + b[1] * a[2], a[2] * b[2])

RatGT(a, b) == a[1] * b[2] > b[1] * a[2]

RatGE(a, b) == a[1] * b[2] >= b[1] * a[2]

Zero == <<0, 1>>

-----------------------------------------------------------------------------
(* Python values *)

Unbound == [kind |-> "unbound", response |-> ""]

NoneValue == [kind |-> "none", response |-> ""]

Dict(text) == [kind |-> "dict", response |-> text]

\* OllamaAPI.generate_response: the dict decoded from a 200 answer, or None
\* after a non-200 status, an undecodable body or any exception.
generate_response(texts) == {NoneValue} \cup {Dict(t) : t \in texts}

\* `not response` (optimizer.py:40, :52)
Falsy(r) == r.kind = "none"

\* One entry of the call history.
Call(role, p, model_response, r) ==
    [role |-> role, prompt |-> p, model_response |-> model_response,
     ok |-> ~Falsy(r), reply |-> r.response]

\* OptimizationResult (schemas.py), with metadata["iterations"] as iterations.
NoResult ==
    [kind |-> "none", original_prompt |-> "", optimized_prompt |-> "",
     initial_response |-> "", final_response |-> "",
     improvement_score |-> Zero, iterations |-> 0]

OptimizationResult(original, optimized, initial, final, s, n) ==
    [kind |-> "result", original_prompt |-> original,
     optimized_prompt |-> optimized, initial_response |-> initial,
     final_response |-> final, improvement_score |-> s, iterations |-> n]

-----------------------------------------------------------------------------
(* Decisions and computations of optimize_prompt *)

LoopContinuesInclusive(it, max) == it + 1 <= max

\* for iteration in range(max_iterations): is there a next round after `it`?
LoopContinues(it, max) == it + 1 < max

OnExecutorFailureContinue == "optimizer"

\* `break` after a failed executor call (optimizer.py:40-41)
OnExecutorFailure == "return"

OnOptimizerFailureContinue == "for"

\* `break` after a failed optimizer call (optimizer.py:52-53)
OnOptimizerFailure == "return"

calculate_improvement_relative(original, new) ==
    IF Len(original) = 0
    THEN [error |-> "ZeroDivisionError", value |-> Zero]
    ELSE [error |-> "",
          value |-> Ratio(Len(new) - Len(original), Len(original))]

\* _calculate_improvement: len(new_response) / len(original_response);
\* the division raises ZeroDivisionError when the original response is empty.
calculate_improvement(original, new) ==
    IF Len(original) = 0
    THEN [error |-> "ZeroDivisionError", value |-> Zero]
    ELSE [error |-> "", value |-> Ratio(Len(new), Len(original))]

\* PromptOptimizationPipeline._calculate_improvement (pipeline.py): the same
\* ratio, guarded: 0 when the initial response is empty.
pipeline_calculate_improvement(initial, final) ==
    IF Len(initial) > 0 THEN Ratio(Len(final), Len(initial)) ELSE Zero

ExecutorPromptOriginal == prompt

\* prompt=current_prompt of the executor call (optimizer.py:37)
ExecutorPrompt == current_prompt

AcceptsAtThreshold(s, best, threshold) == RatGE(s, RatAdd(best, threshold))

AcceptsIgnoringBest(s, best, threshold) == RatGT(s, threshold)

\* score > best_score + improvement_threshold (optimizer.py:69)
Accepts(s, best, threshold) == RatGT(s, RatAdd(best, threshold))

AcceptedResultZeroBased(p, candidate, r, nr, s, it) ==
    OptimizationResult(p, candidate, r.response, nr.response, s, it)

AcceptedResultSwapped(p, candidate, r, nr, s, it) ==
    OptimizationResult(p, candidate, nr.response, r.response, s, it + 1)

\* The OptimizationResult recorded on acceptance (optimizer.py:72-83)
AcceptedResult(p, candidate, r, nr, s, it) ==
    OptimizationResult(p, candidate, r.response, nr.response, s, it + 1)

OnRejectContinue == "for"

\* `else: break` of the Evaluate step (optimizer.py:84-85)
OnReject == "return"

DefaultResultLastCandidate(p, r) ==
    OptimizationResult(p, new_prompt, r.response, r.response, Zero, 0)

\* The result built when best_result is None (optimizer.py:87-95)
DefaultResult(p, r) ==
    OptimizationResult(p, p, r.response, r.response, Zero, 0)

-----------------------------------------------------------------------------
(* The state machine *)

-----------------------------------------------------------------------------
(* The Generation Clients: OllamaAPI.generate_response (ollama_api.py) and   *)
(* AdvancedModelTester.generate_response (advanced_model_testing.py)         *)
(*                                                                           *)
(* A response body is a sequence of lines.  A line is a JSON object (with    *)
(* or without a "response" member), another JSON value ("scalar": a number,  *)
(* a list, ...), text that is no JSON ("invalid"), or blank.  A JSON value   *)
(* spread over several lines is not represented.  params is taken to be a    *)
(* JSON-serialisable dict, so that building the payload cannot fail.         *)

MaxLines == 2

Fragments == {"AI ", "is"}

Line(json, has, text) ==
    [json |-> json, has_response |-> has, response |-> text]

Lines ==
    {Line("object", TRUE, f) : f \in Fragments}
        \cup {Line("object", FALSE, ""), Line("scalar", FALSE, ""),
              Line("invalid", FALSE, ""), Line("blank", FALSE, "")}

Bodies == UNION {[1..n -> Lines] : n \in 0..MaxLines}

Statuses == {200, 404, 500}

\* What requests.post does: it returns a response, or raises because the
\* connection failed or the deadline passed.
Transports ==
    {[kind |-> "response", status |-> st, body |-> b] :
         st \in Statuses, b \in Bodies}
        \cup {[kind |-> k, status |-> 0, body |-> <<>>] :
                  k \in {"connection_error", "timeout"}}

NoTransport == [kind |-> "none", status |-> 0, body |-> <<>>]

\* Python values a client returns.
PyNone ==
    [kind |-> "none", success |-> FALSE, has_response |-> FALSE,
     response |-> "", error |-> ""]

\* A JSON value as decoded by response.json() / json.loads.
PyJson(line) ==
    [kind |-> IF line.json = "object" THEN "dict" ELSE "scalar",
     success |-> FALSE, has_response |-> line.has_response,
     response |-> line.response, error |-> ""]

\* The combined_response dict of OllamaAPI (ollama_api.py:38-42).
PyCombined(text) ==
    [kind |-> "dict", success |-> FALSE, has_response |-> TRUE,
     response |-> text, error |-> ""]

\* The dicts AdvancedModelTester.generate_response returns.
PySuccess(text) ==
    [kind |-> "record", success |-> TRUE, has_response |-> TRUE,
     response |-> text, error |-> ""]

PyFailure(err) ==
    [kind |-> "record", success |-> FALSE, has_response |-> FALSE,
     response |-> "", error |-> err]

\* The outcome of a block of code: a value, or an exception raised.
Value(v) == [raises |-> "", value |-> v]

Raises(exc) == [raises |-> exc, value |-> PyNone]

\* str(e) of the exception requests.post raises.
PostException(t) ==
    IF t.kind = "timeout" THEN "ReadTimeout" ELSE "ConnectionError"

\* text.strip().split('\n') with the empty lines left out
\* (ollama_api.py:29-31); a blank line that is not empty fails to decode
\* and is skipped like an invalid one.
NonBlank(body) == SelectSeq(body, LAMBDA l : l.json # "blank")

\* response.json(): the body decodes as a whole iff it holds exactly one
\* JSON value, blank lines aside.
WholeDecodes(body) ==
    /\ Len(NonBlank(body)) = 1
    /\ NonBlank(body)[1].json \in {"object", "scalar"}

\* The lines json.loads decodes, in order (ollama_api.py:28-34).
DecodedLines(body) ==
    SelectSeq(body, LAMBDA l : l.json \in {"object", "scalar"})

RECURSIVE JoinReversed(_)
JoinReversed(rs) ==
    IF rs = <<>> THEN ""
    ELSE JoinReversed(Tail(rs)) \o
         (IF Head(rs).has_response THEN Head(rs).response ELSE "")

\* "".join(r.get("response", "") for r in responses) (ollama_api.py:39)
RECURSIVE Join(_)
Join(rs) ==
    IF rs = <<>> THEN ""
    ELSE (IF Head(rs).has_response THEN Head(rs).response ELSE "") \o
         Join(Tail(rs))

\* The streaming fallback (ollama_api.py:27-43): the decodable lines are
\* combined; r.get raises AttributeError on a decoded value that is no
\* dict; with no decodable line control falls through to the error return.
OllamaFallback(body) ==
    LET responses == DecodedLines(body) IN
    IF responses = <<>> THEN Value(PyNone)
    ELSE IF \E i \in DOMAIN responses : responses[i].json # "object"
    THEN Raises("AttributeError")
    ELSE Value(PyCombined(Join(responses)))

\* The try block of OllamaAPI.generate_response (ollama_api.py:13-46).
OllamaTry(t) ==
    IF t.kind # "response" THEN Raises(PostException(t))
    ELSE IF t.status = 200
    THEN IF WholeDecodes(t.body)
         THEN Value(PyJson(NonBlank(t.body)[1]))
         ELSE OllamaFallback(t.body)
    ELSE Value(PyNone)

OllamaCatchesTransportOnly(exc) == exc \in {"ConnectionError", "ReadTimeout"}

\* except Exception (ollama_api.py:48)
OllamaCatches(exc) == TRUE

\* The try block of AdvancedModelTester.generate_response
\* (advanced_model_testing.py:61-91).
TesterTry(t) ==
    IF t.kind # "response" THEN Raises(PostException(t))
    ELSE IF t.status = 200
    THEN IF ~WholeDecodes(t.body) THEN Raises("JSONDecodeError")
         ELSE IF NonBlank(t.body)[1].json # "object"
         THEN Raises("AttributeError")
         ELSE Value(PySuccess(NonBlank(t.body)[1].response))
    ELSE Value(PyFailure("HTTP " \o ToString(t.status)))

\* except Exception (advanced_model_testing.py:93)
TesterCatches(exc) == TRUE

AfterReturnRetry ==
    IF returned'.kind = "none" /\ requests_sent < 3 THEN "call" ELSE "returned"

\* `return`: generate_response is left; there is no loop around the request.
AfterReturn == "returned"

\* The variables of a client invocation while none is studied.
ClientIdle ==
    /\ client = "OllamaAPI"
    /\ cpc = "idle"
    /\ transport = NoTransport
    /\ requests_sent = 0
    /\ returned = PyNone
    /\ craised = ""

\* No outcome of a first call recorded.
(* Concurrent profiling of a model pair:                                   *)
(* ModelTester.test_concurrent_models (tests/integration/                  *)
(* model_memory_test.py) and AdvancedModelTester.test_concurrent_performance *)
(* (advanced_model_testing.py)                                             *)

\* Largest value of the argument `iterations` of test_concurrent_performance.
MaxPairs == 2

Workers == 1..2

\* What the Generation Service may answer to a worker, one outcome of
\* requests.post per path of the worker: no answer (connection error,
\* timeout), a status other than 200, whose body is never read, and a 200
\* answer of one line that is an object with or without `response`, another
\* JSON value, or no JSON.
Replies ==
    {t \in Transports :
        \/ t.kind # "response"
        \/ /\ Len(t.body) = 1
           /\ IF t.status = 200
              THEN t.body[1] \in {Line("object", TRUE, "AI "),
                                  Line("object", FALSE, ""),
                                  Line("scalar", FALSE, ""),
                                  Line("invalid", FALSE, "")}
              ELSE t.body[1] = Line("invalid", FALSE, "")}

\* try block of run_model (model_memory_test.py:112-127).  The texts of
\* Fragments are shorter than 50 characters, so [:50] keeps them whole.  The
\* error of a bad status is the status code itself.
RunModelTry(t) ==
    IF t.kind # "response" THEN Raises(PostException(t))
    ELSE IF t.status = 200
    THEN IF ~WholeDecodes(t.body) THEN Raises("JSONDecodeError")
         ELSE IF NonBlank(t.body)[1].json # "object"
         THEN Raises("AttributeError")
         ELSE Value(PySuccess(NonBlank(t.body)[1].response))
    ELSE Value(PyFailure(ToString(t.status)))

\* run_model with its `except Exception` (model_memory_test.py:111-130):
\* the value stored under the worker's key of results.
run_model(t) ==
    LET o == RunModelTry(t) IN
    IF o.raises = "" THEN o.value ELSE PyFailure(o.raises)

\* AdvancedModelTester.generate_response as a function of what requests.post
\* produced (advanced_model_testing.py:61-98).
tester_generate_response(t) ==
    LET o == TesterTry(t) IN
    IF o.raises = "" THEN o.value
    ELSE IF TesterCatches(o.raises) THEN PyFailure(o.raises)
    ELSE PyNone

ResultKeyShared(i) == 1

\* The place worker i leaves its value in: results['model1'] for thread1 and
\* results['model2'] for thread2 (model_memory_test.py:135-136); future1 and
\* future2 (advanced_model_testing.py:175-176).
ResultKey(i) == i

\* The value a worker of harness h leaves for the main thread.
WorkerResult(h, t) ==
    IF h = "ModelTester" THEN run_model(t) ELSE tester_generate_response(t)

\* results['model1']['success'] if results['model1'] else False
\* (model_memory_test.py:154-155); result1["success"]
\* (advanced_model_testing.py:186-187), where the result is never None.
ModelSuccess(r) == IF r.kind = "none" THEN FALSE ELSE r.success

OverallSuccessEither(r1, r2) == ModelSuccess(r1) \/ ModelSuccess(r2)

\* results['model1'] and results['model1']['success'] and results['model2']
\* and results['model2']['success'] (model_memory_test.py:156-157);
\* result1["success"] and result2["success"] (advanced_model_testing.py:190).
OverallSuccess(r1, r2) ==
    /\ r1.kind # "none"
    /\ r1.success
    /\ r2.kind # "none"
    /\ r2.success

CanStartAfterPrevious(i) == i = 1 \/ thread[1] = "done"

\* thread.start() and executor.submit(...) with max_workers=2 hand the call
\* to a new thread and return at once, whatever the other worker is doing.
CanStart(i) == TRUE

FinishedFirstOnly(i) == thread[1] = "done"

\* thread.join() and future.result() return once worker i has ended.
Finished(i) == thread[i] = "done"

NoSummary == [kind |-> "none", success_rate |-> Zero]

\* Summary statistics of test_concurrent_performance
\* (advanced_model_testing.py:195-208); the time statistics are left out.
Summary(rs) ==
    LET successful_runs == SelectSeq(rs, LAMBDA r : r.overall_success) IN
    IF successful_runs # <<>>
    THEN [kind |-> "statistics",
          success_rate |-> Ratio(Len(successful_runs), Len(rs))]
    ELSE [kind |-> "rate_only", success_rate |-> Zero]

\* The variables of the harness at the start of a pair.
PairReset ==
    /\ thread' = [i \in Workers |-> "unstarted"]
    /\ reply' = [i \in Workers |-> NoTransport]
    /\ results' = [i \in Workers |-> PyNone]
    /\ finished' = <<>>

\* The variables of the harness while no profiling run is studied.
HarnessIdle ==
    /\ harness = "ModelTester"
    /\ iterations = 0
    /\ hpc = "idle"
    /\ thread = [i \in Workers |-> "unstarted"]
    /\ reply = [i \in Workers |-> NoTransport]
    /\ results = [i \in Workers |-> PyNone]
    /\ finished = <<>>
    /\ concurrent_results = <<>>
    /\ actual = <<>>
    /\ summary = NoSummary
    /\ in_flight = 0

(* Benchmark summaries of AdvancedModelTester: test_model_categories,      *)
(* test_concurrent_performance and test_parameter_optimization             *)

\* Largest number of samples of one category or one concurrent pair.
MaxSamples == 3

\* for _ in range(3): the samples of one parameter set.
ParameterRuns == 3

\* One sample: a generate_response result after result.update(quality
\* metrics), or the both_successful flag of one concurrent iteration.  A
\* failed sample has no response_length key (0 here, never read).
SampleResults ==
    {[success |-> FALSE, response_length |-> 0]} \cup
    {[success |-> TRUE, response_length |-> Len(t)] :
        t \in {"AI ", "AI is a technology."}}

RECURSIVE SumLengths(_)
SumLengths(rs) ==
    IF rs = <<>> THEN 0 ELSE rs[1].response_length + SumLengths(Tail(rs))

BenchSummary(kind, rate, avg) ==
    [kind |-> kind, success_rate |-> rate, avg_response_length |-> avg]

\* statistics.mean of the response_length of rs; it raises StatisticsError
\* on an empty list.
MeanLength(rs) ==
    IF rs = <<>> THEN [raises |-> "StatisticsError", value |-> Zero]
    ELSE [raises |-> "", value |-> Ratio(SumLengths(rs), Len(rs))]

\* if successful_results: {"success_rate": ..., "avg_...": mean(...)}
Statistics(successful_results, rs) ==
    LET m == MeanLength(successful_results) IN
    IF Len(rs) = 0 THEN BenchSummary("raised", Zero, Zero)
    ELSE IF m.raises # "" THEN BenchSummary("raised", Zero, Zero)
    ELSE BenchSummary("statistics", Ratio(Len(successful_results), Len(rs)),
                      m.value)

\* Category summary (advanced_model_testing.py:123-133).
CategorySummary(rs) ==
    LET successful_results == SelectSeq(rs, LAMBDA r : r["success"]) IN
    IF successful_results # <<>> THEN Statistics(successful_results, rs)
    ELSE BenchSummary("rate_only", Zero, Zero)

\* Summary of a concurrent pair (advanced_model_testing.py:195-208), over
\* the runs whose both_successful flag is set.
ConcurrentSummary(rs) ==
    LET runs == [i \in DOMAIN rs |-> [overall_success |-> rs[i].success]]
        s == Summary(runs)
    IN BenchSummary(s.kind, s.success_rate, Zero)

\* Summary of a parameter set (advanced_model_testing.py:243-251): when no
\* run succeeded, parameter_results gets no entry for the set.
ParameterSummary(rs) ==
    LET successful_results == SelectSeq(rs, LAMBDA r : r["success"]) IN
    IF successful_results # <<>> THEN Statistics(successful_results, rs)
    ELSE BenchSummary("absent", Zero, Zero)

NoBenchSummary == BenchSummary("none", Zero, Zero)

\* The variables of the benchmark summary while none is studied.
SummaryIdle ==
    /\ bench = "category"
    /\ n_samples = 0
    /\ samples = <<>>
    /\ bpc = "idle"
    /\ bsummary = NoBenchSummary

(* A benchmark run: ModelTester.run_full_benchmark (tests/integration/     *)
(* model_memory_test.py) and AdvancedModelTester.run_comprehensive_test    *)
(* (advanced_model_testing.py)                                             *)

\* models_to_test (model_memory_test.py:171-177, the first two of five;
\* advanced_model_testing.py:257, the first two of three).
ModelsToTest(h) ==
    IF h = "ModelTester" THEN <<"llama3.1:8b", "mistral:7b">>
    ELSE <<"mistral:7b", "llama3.2:3b">>

\* concurrent_tests (model_memory_test.py:188-193, two of four) and
\* concurrent_combinations (advanced_model_testing.py:285-288, one of two).
Combinations(h) ==
    IF h = "ModelTester"
    THEN << <<"llama3.2:7b", "llama3.2:3b">>, <<"mistral:7b", "llama3.2:3b">> >>
    ELSE << <<"mistral:7b", "llama3.2:3b">> >>

\* The pairs added when llama3.1:8b is among the models
\* (advanced_model_testing.py:290-294).
ExtraCombinations ==
    << <<"llama3.1:8b", "llama3.2:3b">>, <<"llama3.1:8b", "phi3:3.8b">> >>

\* The list of pairs as built after the loop over the models.
CombinationsFor(h, models) ==
    IF h = "AdvancedModelTester" /\ \E k \in DOMAIN models : models[k] = "llama3.1:8b"
    THEN Combinations(h) \o ExtraCombinations
    ELSE Combinations(h)

\* try block of test_model_loading (model_memory_test.py:48-92).
LoadingTry(t) ==
    IF t.kind # "response" THEN Raises(PostException(t))
    ELSE IF t.status = 200
    THEN IF ~WholeDecodes(t.body) THEN Raises("JSONDecodeError")
         ELSE IF NonBlank(t.body)[1].json # "object"
         THEN Raises("AttributeError")
         ELSE Value(PySuccess(NonBlank(t.body)[1].response))
    ELSE Value(PyFailure("Error: " \o ToString(t.status)))

LoadingCatchesNothing(exc) == FALSE

\* except Exception of test_model_loading (model_memory_test.py:94-100).
LoadingCatches(exc) == TRUE

\* The sequential call made for one model: test_model_loading, or
\* generate_response as called by test_model_categories and
\* test_parameter_optimization.
SequentialTry(h, t) == IF h = "ModelTester" THEN LoadingTry(t) ELSE TesterTry(t)

SequentialCatches(h, exc) ==
    IF h = "ModelTester" THEN LoadingCatches(exc) ELSE TesterCatches(exc)

AfterIssueAsync == "models"

\* requests.post blocks: the run goes on when the call has returned.
AfterIssue == "call"

\* The variables of the benchmark run while none is studied.
RunIdle ==
    /\ models_to_test = <<>>
    /\ concurrent_combinations = <<>>
    /\ rpc = "idle"
    /\ model_results = <<>>
    /\ pair_results = <<>>
    /\ model_actual = <<>>
    /\ rexception = ""

(* calculate_quality_metrics (advanced_model_testing.py:140-156)          *)

\* Largest number of "unclear" and of "I don't know" in a response.
MaxUnclear == 12

MaxPhrases == 1

\* Numbers of other words in a response.
WordCounts == {0, 1, 25, 49, 50, 60}

\* Assumes 50+ words is complete (advanced_model_testing.py:147).
CompleteWords == 50

One == <<1, 1>>

RatSub(a, b) == Ratio(a[1] * b[2] - b[1] * a[2], a[2] * b[2])

RatMul(a, b) == Ratio(a[1] * b[1], a[2] * b[2])

RatMin(a, b) == IF RatGE(a, b) THEN b ELSE a

RatMax(a, b) == IF RatGE(a, b) THEN a ELSE b

\* The penalty 0.2 per occurrence.
ClarityPenalty == Ratio(1, 5)

\* A response as the sequence of its words, separated by single spaces:
\* w words "fine", u words "unclear" and p phrases "I don't know".
ResponseOf(w, u, p) ==
    [i \in 1..w |-> "fine"] \o [i \in 1..u |-> "unclear"] \o
    [i \in 1..(3 * p) |->
        IF i % 3 = 1 THEN "I" ELSE IF i % 3 = 2 THEN "don't" ELSE "know"]

\* len(response): the characters of the words and the spaces between them.
RECURSIVE Characters(_)
Characters(ws) ==
    IF ws = <<>> THEN 0
    ELSE Len(ws[1]) + (IF Len(ws) > 1 THEN 1 ELSE 0) + Characters(Tail(ws))

\* response.count("unclear")
CountUnclear(ws) == Cardinality({i \in DOMAIN ws : ws[i] = "unclear"})

\* response.count("I don't know")
CountDontKnow(ws) ==
    Cardinality({i \in DOMAIN ws :
        /\ i + 2 <= Len(ws)
        /\ ws[i] = "I"
        /\ ws[i + 1] = "don't"
        /\ ws[i + 2] = "know"})

Unclamped(q) == q

\* max(0.0, min(1.0, quality_score))
Clamp(q) == RatMax(Zero, RatMin(One, q))

calculate_quality_metrics(ws) ==
    LET response_length == Characters(ws)
        word_count == Len(ws)
        relevance_score == One
        completeness_score == RatMin(One, Ratio(word_count, CompleteWords))
        clarity_score ==
            RatSub(One, RatMul(Ratio(CountUnclear(ws) + CountDontKnow(ws), 1),
                               ClarityPenalty))
        quality_score ==
            RatMul(RatAdd(RatAdd(relevance_score, completeness_score),
                          clarity_score), Ratio(1, 3))
    IN  [response_length |-> response_length,
         word_count |-> word_count,
         completeness_score |-> completeness_score,
         clarity_score |-> clarity_score,
         quality_score |-> Clamp(quality_score)]

NoQuality ==
    [response_length |-> 0, word_count |-> 0, completeness_score |-> Zero,
     clarity_score |-> Zero, quality_score |-> Zero]

\* The variables of calculate_quality_metrics while no call is studied.
QualityIdle ==
    /\ q_words = 0
    /\ q_unclear = 0
    /\ q_phrases = 0
    /\ q_response = <<>>
    /\ qpc = "idle"
    /\ quality = NoQuality

(* The score functions called directly                                    *)

\* Largest number of calls of the score function on one pair of strings.
MaxScoreCalls == 2

\* Non-empty strings the score function is called with.
ScoreTexts == (ExecutorTexts \ {""}) \cup OptimizerTexts \cup Prompts

\* _calculate_improvement of the given class, as an outcome.
Score(scorer, a, b) ==
    IF scorer = "OptimizationLoop" THEN calculate_improvement(a, b)
    ELSE [error |-> "", value |-> pipeline_calculate_improvement(a, b)]

\* The variables of the score calls while none is studied.
ScoreIdle ==
    /\ s_scorer = "OptimizationLoop"
    /\ s_a = ""
    /\ s_b = ""
    /\ s_values = <<>>

(* StorageManager (src/data_storage/storage_manager.py)                   *)

\* Largest number of save_optimization_result calls.
MaxSaves == 3

\* Largest argument limit of load_recent_results.
MaxLimit == 3

\* Readings of datetime.now(), in microseconds: the wall clock in local
\* time, which may give one reading to two calls (coarse clock) and may be
\* set back between two calls.  strftime("%Y%m%d_%H%M%S_%f") has a fixed
\* width, so file names sort as the readings do.
MaxTick == 3

Ticks == 1..MaxTick

\* The k-th result saved, as in test_multiple_results
\* (tests/integration/test_storage.py:55-66), counting from 1.
TestResult(k) ==
    [original_prompt |-> "Test prompt " \o ToString(k),
     optimized_prompt |-> "Optimized prompt " \o ToString(k),
     initial_response |-> "Initial response " \o ToString(k),
     final_response |-> "Final response " \o ToString(k),
     improvement_score |-> Ratio(k, 1)]

\* json.dump of the data dict and json.load of it (storage_manager.py:24-35,
\* 51-61): strings and floats come back as they were written.
JsonDump(r) ==
    [original_prompt |-> r.original_prompt,
     optimized_prompt |-> r.optimized_prompt,
     initial_response |-> r.initial_response,
     final_response |-> r.final_response,
     improvement_score |-> r.improvement_score]

JsonLoad(data) ==
    [original_prompt |-> data.original_prompt,
     optimized_prompt |-> data.optimized_prompt,
     initial_response |-> data.initial_response,
     final_response |-> data.final_response,
     improvement_score |-> data.improvement_score]

\* open(path, 'w'): a file of that name is replaced.
Write(files, name, data) ==
    {f \in files : f.name # name} \cup {[name |-> name, data |-> data]}

\* files.sort(reverse=True): the files by name, greatest first.
RECURSIVE SortReverse(_)
SortReverse(files) ==
    IF files = {} THEN <<>>
    ELSE LET top == CHOOSE f \in files : \A g \in files : g.name <= f.name
         IN  <<top>> \o SortReverse({g \in files : g.name < top.name})

\* files[:limit] for limit >= 0.
Take(fs, limit) == SubSeq(fs, 1, IF limit < Len(fs) THEN limit ELSE Len(fs))

load_recent_results(files, limit) ==
    LET taken == Take(SortReverse(files), limit)
    IN  [i \in DOMAIN taken |-> JsonLoad(taken[i].data)]

\* The variables of the storage while it is not studied.
StorageIdle ==
    /\ st_files = {}
    /\ st_saved = <<>>
    /\ st_limit = 0
    /\ st_loaded = <<>>
    /\ stpc = "idle"

(* The optimization request (src/optimization/prompt_engineer.py)        *)

\* task_type = None.
NoTaskType == "None"

\* self.task_patterns in the order of the dict (prompt_engineer.py:9-14);
\* a pattern is the sequence of its words.
task_patterns ==
    << [task_type |-> "general",
        patterns |-> {<<"what", "is">>, <<"tell", "me", "about">>,
                      <<"explain">>}],
       [task_type |-> "technical",
        patterns |-> {<<"how", "does">>, <<"implement">>,
                      <<"architecture">>}],
       [task_type |-> "creative",
        patterns |-> {<<"write">>, <<"create">>, <<"design">>, <<"story">>}],
       [task_type |-> "analytical",
        patterns |-> {<<"compare">>, <<"analyze">>, <<"evaluate">>}] >>

TaskTypes == {task_patterns[i].task_type : i \in DOMAIN task_patterns}

\* Prompts as sequences of words: one per task type that their words
\* point to, one that matches two types and one that matches none.
RequestPrompts ==
    { <<"Tell", "me", "about", "AI">>,
      <<"How", "does", "AI", "work">>,
      <<"Write", "a", "poem">>,
      <<"Compare", "AI", "models">>,
      <<"Explain", "the", "architecture">>,
      <<"Hello">> }

RequestResponses == {"AI is a field of study", "AI"}

\* str.lower() of a word.
LowerWord(w) ==
    CASE w = "Tell" -> "tell"
      [] w = "How" -> "how"
      [] w = "Write" -> "write"
      [] w = "Compare" -> "compare"
      [] w = "Explain" -> "explain"
      [] w = "Hello" -> "hello"
      [] w = "AI" -> "ai"
      [] OTHER -> w

Lower(ws) == [i \in DOMAIN ws |-> LowerWord(ws[i])]

\* pattern in prompt_lower, on words.
Contains(ws, pattern) ==
    \E start \in 1..(Len(ws) - Len(pattern) + 1) :
        SubSeq(ws, start, start + Len(pattern) - 1) = pattern

\* detect_task_type (prompt_engineer.py:24-32): the first task type of
\* task_patterns one of whose patterns occurs in the lowered prompt.
detect_task_type(p) ==
    LET prompt_lower == Lower(p)
        hit(i) == \E pattern \in task_patterns[i].patterns :
                      Contains(prompt_lower, pattern)
    IN  IF \E i \in DOMAIN task_patterns : hit(i)
        THEN task_patterns[CHOOSE i \in DOMAIN task_patterns :
                 hit(i) /\ \A j \in 1..(i - 1) : ~hit(j)].task_type
        ELSE "general"

\* enhance_prompt without a role (prompt_engineer.py:34-53): the template
\* chosen and the arguments of template.format.
enhance_prompt(templates, original_prompt, task_type, model_response) ==
    LET detected == IF task_type = NoTaskType
                    THEN detect_task_type(original_prompt)
                    ELSE task_type
        used == IF detected \notin templates THEN "general" ELSE detected
    IN  [template |-> used,
         original_prompt |-> original_prompt,
         model_response |-> model_response,
         task_type |-> used]

\* _create_optimization_prompt (optimizer.py:97-102).
create_optimization_prompt(templates, p, r) ==
    enhance_prompt(templates, p, NoTaskType, r)

NoRequest ==
    [template |-> "", original_prompt |-> <<>>, model_response |-> "",
     task_type |-> ""]

\* The variables of the request while it is not studied.
RequestIdle ==
    /\ rq_prompt = <<>>
    /\ rq_task_type = NoTaskType
    /\ rq_response = ""
    /\ rq_templates = {}
    /\ rq_request = NoRequest
    /\ rqpc = "idle"

NoOutcome == [pc |-> "", result |-> NoResult, exception |-> "", calls |-> <<>>]

\* The variables of the two-call scenario while a single call is studied.
TwiceIdle ==
    /\ service = {}
    /\ run = 1
    /\ first = NoOutcome

\* The variables of optimize_prompt while no call of it is studied.
LoopIdle ==
    /\ prompt = ""
    /\ max_iterations = 0
    /\ improvement_threshold = Zero
    /\ current_prompt = ""
    /\ best_score = Zero
    /\ best_result = NoResult
    /\ iteration = -1
    /\ response = Unbound
    /\ optimization_result = Unbound
    /\ new_prompt = ""
    /\ new_response = Unbound
    /\ score = Zero
    /\ pc = "idle"
    /\ result = NoResult
    /\ exception = ""
    /\ calls = <<>>
    /\ evals = <<>>

\* The variables of the groups after harnessVars while none is studied.
OthersIdle ==
    /\ SummaryIdle
    /\ RunIdle
    /\ QualityIdle
    /\ ScoreIdle
    /\ StorageIdle
    /\ RequestIdle

\* The groups that the specification of summaryVars leaves alone are idle.
OnlySummary ==
    /\ LoopIdle
    /\ TwiceIdle
    /\ ClientIdle
    /\ HarnessIdle
    /\ RunIdle
    /\ QualityIdle
    /\ ScoreIdle
    /\ StorageIdle
    /\ RequestIdle

\* The groups that the specification of runVars leaves alone are idle.
OnlyRun ==
    /\ LoopIdle
    /\ TwiceIdle
    /\ ClientIdle
    /\ SummaryIdle
    /\ QualityIdle
    /\ ScoreIdle
    /\ StorageIdle
    /\ RequestIdle

\* The groups that the specification of qualityVars leaves alone are idle.
OnlyQuality ==
    /\ LoopIdle
    /\ TwiceIdle
    /\ ClientIdle
    /\ HarnessIdle
    /\ SummaryIdle
    /\ RunIdle
    /\ ScoreIdle
    /\ StorageIdle
    /\ RequestIdle

\* The groups that the specification of scoreVars leaves alone are idle.
OnlyScore ==
    /\ LoopIdle
    /\ TwiceIdle
    /\ ClientIdle
    /\ HarnessIdle
    /\ SummaryIdle
    /\ RunIdle
    /\ QualityIdle
    /\ StorageIdle
    /\ RequestIdle

\* The groups that the specification of storageVars leaves alone are idle.
OnlyStorage ==
    /\ LoopIdle
    /\ TwiceIdle
    /\ ClientIdle
    /\ HarnessIdle
    /\ SummaryIdle
    /\ RunIdle
    /\ QualityIdle
    /\ ScoreIdle
    /\ RequestIdle

\* The groups that the specification of requestVars leaves alone are idle.
OnlyRequest ==
    /\ LoopIdle
    /\ TwiceIdle
    /\ ClientIdle
    /\ HarnessIdle
    /\ SummaryIdle
    /\ RunIdle
    /\ QualityIdle
    /\ ScoreIdle
    /\ StorageIdle

\* optimize_prompt is entered with its arguments; optimizer.py:26-29.
Init ==
    /\ prompt \in Prompts
    /\ max_iterations \in 0..MaxIterations
    /\ improvement_threshold \in Thresholds
    /\ current_prompt = prompt
    /\ best_score = Zero
    /\ best_result = NoResult
    /\ iteration = -1
    /\ response = Unbound
    /\ optimization_result = Unbound
    /\ new_prompt = ""
    /\ new_response = Unbound
    /\ score = Zero
    /\ pc = "for"
    /\ result = NoResult
    /\ exception = ""
    /\ calls = <<>>
    /\ evals = <<>>
    /\ TwiceIdle
    /\ ClientIdle
    /\ HarnessIdle
    /\ OthersIdle

\* The head of the for loop (optimizer.py:31).
ForIteration ==
    /\ pc = "for"
    /\ IF LoopContinues(iteration, max_iterations)
       THEN /\ iteration' = iteration + 1
            /\ pc' = "executor"
       ELSE /\ iteration' = iteration
            /\ pc' = "return"
    /\ UNCHANGED <<prompt, max_iterations, improvement_threshold,
                   current_prompt, best_score, best_result, response,
                   optimization_result, new_prompt, new_response, score,
                   result, exception, calls, evals>>

\* The executor call on current_prompt, answered with r, and its check
\* (optimizer.py:35-41).
RunExecutorWith(r) ==
    /\ pc = "executor"
    /\ response' = r
    /\ calls' = Append(calls, Call("executor", ExecutorPrompt, "", r))
    /\ pc' = IF Falsy(r) THEN OnExecutorFailure ELSE "optimizer"
    /\ UNCHANGED <<prompt, max_iterations, improvement_threshold,
                   current_prompt, best_score, best_result, iteration,
                   optimization_result, new_prompt, new_response, score,
                   result, exception, evals>>

RunExecutor == \E r \in generate_response(ExecutorTexts) : RunExecutorWith(r)

\* The optimizer call on the optimization request built from current_prompt
\* and the executor's response, answered with r, and its check
\* (optimizer.py:44-53).
RunOptimizerWith(r) ==
    /\ pc = "optimizer"
    /\ optimization_result' = r
    /\ calls' = Append(calls, Call("optimizer", current_prompt,
                                   response.response, r))
    /\ pc' = IF Falsy(r) THEN OnOptimizerFailure ELSE "candidate"
    /\ UNCHANGED <<prompt, max_iterations, improvement_threshold,
                   current_prompt, best_score, best_result, iteration,
                   response, new_prompt, new_response, score, result,
                   exception, evals>>

RunOptimizer ==
    \E r \in generate_response(OptimizerTexts) : RunOptimizerWith(r)

\* The executor call on the candidate prompt, answered with r
\* (optimizer.py:56-60).
RunExecutorOnCandidateWith(r) ==
    /\ pc = "candidate"
    /\ new_prompt' = optimization_result.response
    /\ new_response' = r
    /\ calls' = Append(calls, Call("executor",
                                   optimization_result.response, "", r))
    /\ pc' = "score"
    /\ UNCHANGED <<prompt, max_iterations, improvement_threshold,
                   current_prompt, best_score, best_result, iteration,
                   response, optimization_result, score, result, exception,
                   evals>>

RunExecutorOnCandidate ==
    \E r \in generate_response(ExecutorTexts) :
        RunExecutorOnCandidateWith(r)

\* score = self._calculate_improvement(...) (optimizer.py:63-66).
\* new_response["response"] raises TypeError when new_response is None.
CalculateScore ==
    /\ pc = "score"
    /\ IF new_response.kind # "dict"
       THEN /\ exception' = "TypeError"
            /\ pc' = "raised"
            /\ score' = score
       ELSE LET c == calculate_improvement(response.response,
                                           new_response.response)
            IN  IF c.error # ""
                THEN /\ exception' = c.error
                     /\ pc' = "raised"
                     /\ score' = score
                ELSE /\ exception' = exception
                     /\ pc' = "evaluate"
                     /\ score' = c.value
    /\ UNCHANGED <<prompt, max_iterations, improvement_threshold,
                   current_prompt, best_score, best_result, iteration,
                   response, optimization_result, new_prompt, new_response,
                   result, calls, evals>>

\* Update if better, else break (optimizer.py:69-85).
Evaluate ==
    /\ pc = "evaluate"
    /\ IF Accepts(score, best_score, improvement_threshold)
       THEN /\ best_score' = score
            /\ current_prompt' = new_prompt
            /\ best_result' = AcceptedResult(prompt, new_prompt, response,
                                             new_response, score, iteration)
            /\ evals' = Append(evals, [round |-> iteration, score |-> score,
                                       accepted |-> TRUE])
            /\ pc' = "for"
       ELSE /\ UNCHANGED <<best_score, current_prompt, best_result>>
            /\ evals' = Append(evals, [round |-> iteration, score |-> score,
                                       accepted |-> FALSE])
            /\ pc' = OnReject
    /\ UNCHANGED <<prompt, max_iterations, improvement_threshold, iteration,
                   response, optimization_result, new_prompt, new_response,
                   score, result, exception, calls>>

\* return best_result or OptimizationResult(...) (optimizer.py:87-95).
\* response["response"] raises UnboundLocalError when no round has run and
\* TypeError when response is None.
Return ==
    /\ pc = "return"
    /\ IF best_result.kind = "result"
       THEN /\ result' = best_result
            /\ pc' = "done"
            /\ exception' = exception
       ELSE IF response.kind = "unbound"
       THEN /\ exception' = "UnboundLocalError"
            /\ pc' = "raised"
            /\ result' = result
       ELSE IF response.kind = "none"
       THEN /\ exception' = "TypeError"
            /\ pc' = "raised"
            /\ result' = result
       ELSE /\ result' = DefaultResult(prompt, response)
            /\ pc' = "done"
            /\ exception' = exception
    /\ UNCHANGED <<prompt, max_iterations, improvement_threshold,
                   current_prompt, best_score, best_result, iteration,
                   response, optimization_result, new_prompt, new_response,
                   score, calls, evals>>

\* The call has ended: it returned a result or raised.
Terminated == pc \in {"done", "raised"}

Next ==
    \/ ForIteration /\ UNCHANGED <<twiceVars, clientVars, harnessVars, otherVars>>
    \/ RunExecutor /\ UNCHANGED <<twiceVars, clientVars, harnessVars, otherVars>>
    \/ RunOptimizer /\ UNCHANGED <<twiceVars, clientVars, harnessVars, otherVars>>
    \/ RunExecutorOnCandidate /\ UNCHANGED <<twiceVars, clientVars, harnessVars, otherVars>>
    \/ CalculateScore /\ UNCHANGED <<twiceVars, clientVars, harnessVars, otherVars>>
    \/ Evaluate /\ UNCHANGED <<twiceVars, clientVars, harnessVars, otherVars>>
    \/ Return /\ UNCHANGED <<twiceVars, clientVars, harnessVars, otherVars>>

Spec == Init /\ [][Next]_vars

\* optimize_prompt is one synchronous call: once entered, each of its
\* statements is executed as soon as the Generation Client call before it
\* has returned.
FairSpec == Spec /\ WF_vars(Next)

-----------------------------------------------------------------------------
(* Two calls of optimize_prompt on one OptimizationLoop instance, against a  *)
(* Generation Service that answers every request the same way each time      *)

\* The request a call sends: the model (by role) and what the prompt is
\* built from.
Request(role, p, model_response) ==
    [role |-> role, prompt |-> p, model_response |-> model_response]

\* The service answers request q with r: the answer it gave to q before, if
\* it was asked before, and from then on its answer to q.
Answers(q, r) ==
    /\ \A e \in service : e.request = q => e.answer = r
    /\ service' = service \cup {[request |-> q, answer |-> r]}
    /\ UNCHANGED <<run, first, clientVars, harnessVars, otherVars>>

EntryBestScoreCarried == best_score

\* best_score = 0.0 on entry of optimize_prompt (optimizer.py:28)
EntryBestScore == Zero

\* The caller calls optimize_prompt again with the same arguments once the
\* first call has returned or raised: the locals are initialised anew
\* (optimizer.py:26-29); the instance holds nothing the call has written.
CallAgain ==
    /\ run = 1
    /\ Terminated
    /\ first' = [pc |-> pc, result |-> result, exception |-> exception,
                 calls |-> calls]
    /\ run' = 2
    /\ current_prompt' = prompt
    /\ best_score' = EntryBestScore
    /\ best_result' = NoResult
    /\ iteration' = -1
    /\ response' = Unbound
    /\ optimization_result' = Unbound
    /\ new_prompt' = ""
    /\ new_response' = Unbound
    /\ score' = Zero
    /\ pc' = "for"
    /\ result' = NoResult
    /\ exception' = ""
    /\ calls' = <<>>
    /\ evals' = <<>>
    /\ UNCHANGED <<prompt, max_iterations, improvement_threshold, service,
                   clientVars, harnessVars, otherVars>>

DeterministicExecutor ==
    \E r \in generate_response(ExecutorTexts) :
        /\ Answers(Request("executor", ExecutorPrompt, ""), r)
        /\ RunExecutorWith(r)

DeterministicOptimizer ==
    \E r \in generate_response(OptimizerTexts) :
        /\ Answers(Request("optimizer", current_prompt, response.response), r)
        /\ RunOptimizerWith(r)

DeterministicExecutorOnCandidate ==
    \E r \in generate_response(ExecutorTexts) :
        /\ Answers(Request("executor", optimization_result.response, ""), r)
        /\ RunExecutorOnCandidateWith(r)

NextTwice ==
    \/ ForIteration /\ UNCHANGED <<twiceVars, clientVars, harnessVars, otherVars>>
    \/ DeterministicExecutor
    \/ DeterministicOptimizer
    \/ DeterministicExecutorOnCandidate
    \/ CalculateScore /\ UNCHANGED <<twiceVars, clientVars, harnessVars, otherVars>>
    \/ Evaluate /\ UNCHANGED <<twiceVars, clientVars, harnessVars, otherVars>>
    \/ Return /\ UNCHANGED <<twiceVars, clientVars, harnessVars, otherVars>>
    \/ CallAgain

SpecTwice == Init /\ [][NextTwice]_vars

-----------------------------------------------------------------------------
(* One invocation of generate_response of either Generation Client *)

\* generate_response of one of the two clients is entered.
InitClient ==
    /\ LoopIdle
    /\ TwiceIdle
    /\ HarnessIdle
    /\ OthersIdle
    /\ client \in {"OllamaAPI", "AdvancedModelTester"}
    /\ cpc = "call"
    /\ transport = NoTransport
    /\ requests_sent = 0
    /\ returned = PyNone
    /\ craised = ""

\* requests.post(...) (ollama_api.py:21, advanced_model_testing.py:62-71):
\* one request goes out and the call comes back with a response or an
\* exception.
Post ==
    /\ cpc = "call"
    /\ \E t \in Transports : transport' = t
    /\ requests_sent' = requests_sent + 1
    /\ cpc' = "sent"
    /\ UNCHANGED <<client, returned, craised, loopVars, twiceVars, harnessVars,
                   otherVars>>

\* The rest of OllamaAPI.generate_response (ollama_api.py:23-50).
OllamaReturn ==
    /\ cpc = "sent"
    /\ client = "OllamaAPI"
    /\ LET o == OllamaTry(transport) IN
       IF o.raises = ""
       THEN /\ returned' = o.value
            /\ cpc' = AfterReturn
            /\ craised' = craised
       ELSE IF OllamaCatches(o.raises)
       THEN /\ returned' = PyNone
            /\ cpc' = AfterReturn
            /\ craised' = craised
       ELSE /\ returned' = returned
            /\ cpc' = "raised"
            /\ craised' = o.raises
    /\ UNCHANGED <<client, transport, requests_sent, loopVars, twiceVars, harnessVars,
                   otherVars>>

\* The rest of AdvancedModelTester.generate_response
\* (advanced_model_testing.py:73-98).
TesterReturn ==
    /\ cpc = "sent"
    /\ client = "AdvancedModelTester"
    /\ LET o == TesterTry(transport) IN
       IF o.raises = ""
       THEN /\ returned' = o.value
            /\ cpc' = AfterReturn
            /\ craised' = craised
       ELSE IF TesterCatches(o.raises)
       THEN /\ returned' = PyFailure(o.raises)
            /\ cpc' = AfterReturn
            /\ craised' = craised
       ELSE /\ returned' = returned
            /\ cpc' = "raised"
            /\ craised' = o.raises
    /\ UNCHANGED <<client, transport, requests_sent, loopVars, twiceVars, harnessVars,
                   otherVars>>

NextClient ==
    \/ Post
    \/ OllamaReturn
    \/ TesterReturn

SpecClient == InitClient /\ [][NextClient]_vars

-----------------------------------------------------------------------------
(* One run of concurrent profiling *)

\* The call succeeded: status 200 and a body that is one JSON object.
Succeeded(t) ==
    /\ t.kind = "response"
    /\ t.status = 200
    /\ Cardinality({i \in DOMAIN t.body : t.body[i].json # "blank"}) = 1
    /\ \A i \in DOMAIN t.body : t.body[i].json \in {"object", "blank"}

\* test_concurrent_models runs one pair; test_concurrent_performance runs
\* `iterations` pairs.
InitHarness ==
    /\ LoopIdle
    /\ TwiceIdle
    /\ ClientIdle
    /\ OthersIdle
    /\ harness \in {"ModelTester", "AdvancedModelTester"}
    /\ iterations \in (IF harness = "ModelTester" THEN {1} ELSE 0..MaxPairs)
    /\ hpc = (IF harness = "ModelTester" THEN "start1" ELSE "for")
    /\ thread = [i \in Workers |-> "unstarted"]
    /\ reply = [i \in Workers |-> NoTransport]
    /\ results = [i \in Workers |-> PyNone]
    /\ finished = <<>>
    /\ concurrent_results = <<>>
    /\ actual = <<>>
    /\ summary = NoSummary
    /\ in_flight = 0

\* for i in range(iterations) (advanced_model_testing.py:164-174): the next
\* pair gets a new executor and new futures.
ForPair ==
    /\ hpc = "for"
    /\ Len(concurrent_results) < iterations
    /\ hpc' = "start1"
    /\ PairReset
    /\ UNCHANGED <<in_flight, harness, iterations, concurrent_results,
                   actual, summary>>

\* End of the loop (advanced_model_testing.py:195-213): the summary is
\* computed and the function returns; the executor and the futures of the
\* last pair are gone.
Summarize ==
    /\ hpc = "for"
    /\ Len(concurrent_results) >= iterations
    /\ summary' = Summary(concurrent_results)
    /\ hpc' = "done"
    /\ PairReset
    /\ UNCHANGED <<in_flight, harness, iterations, concurrent_results,
                   actual>>

\* thread1.start(), thread2.start() (model_memory_test.py:138-139);
\* executor.submit(...) (advanced_model_testing.py:175-176).
Start(i) ==
    /\ hpc = (IF i = 1 THEN "start1" ELSE "start2")
    /\ CanStart(i)
    /\ thread' = [thread EXCEPT ![i] = "inflight"]
    /\ hpc' = (IF i = 1 THEN "start2" ELSE "join1")
    /\ in_flight' = in_flight + 1
    /\ UNCHANGED <<harness, iterations, reply, results, finished,
                   concurrent_results, actual, summary>>

\* Worker i runs to its end: the Generation Service answers (or not) and the
\* worker leaves its value (model_memory_test.py:111-130;
\* advanced_model_testing.py:54-98).
Complete(i) ==
    /\ thread[i] = "inflight"
    /\ \E t \in Replies :
          /\ reply' = [reply EXCEPT ![i] = t]
          /\ results' = [results EXCEPT
                             ![ResultKey(i)] = WorkerResult(harness, t)]
    /\ thread' = [thread EXCEPT ![i] = "done"]
    /\ finished' = Append(finished, i)
    /\ in_flight' = in_flight - 1
    /\ UNCHANGED <<harness, iterations, hpc, concurrent_results, actual,
                   summary>>

\* thread1.join(), thread2.join() (model_memory_test.py:141-142);
\* future1.result(), future2.result() (advanced_model_testing.py:178-179).
ThreadJoin(i) ==
    /\ hpc = (IF i = 1 THEN "join1" ELSE "join2")
    /\ Finished(i)
    /\ hpc' = (IF i = 1 THEN "join2" ELSE "record")
    /\ UNCHANGED <<in_flight, harness, iterations, thread, reply, results, finished,
                   concurrent_results, actual, summary>>

\* The combined result (model_memory_test.py:148-167;
\* advanced_model_testing.py:183-193).  overall_success is the field
\* both_successful of test_concurrent_performance.
Record ==
    /\ hpc = "record"
    /\ concurrent_results' = Append(concurrent_results,
           [model1_success |-> ModelSuccess(results[1]),
            model2_success |-> ModelSuccess(results[2]),
            overall_success |-> OverallSuccess(results[1], results[2])])
    /\ actual' = Append(actual, <<Succeeded(reply[1]), Succeeded(reply[2])>>)
    /\ hpc' = (IF harness = "ModelTester" THEN "done" ELSE "for")
    /\ UNCHANGED <<in_flight, harness, iterations, thread, reply, results, finished,
                   summary>>

NextHarness ==
    \/ ForPair /\ UNCHANGED <<loopVars, twiceVars, clientVars, otherVars>>
    \/ Summarize /\ UNCHANGED <<loopVars, twiceVars, clientVars, otherVars>>
    \/ \E i \in Workers : Start(i) /\ UNCHANGED <<loopVars, twiceVars, clientVars, otherVars>>
    \/ \E i \in Workers : Complete(i) /\ UNCHANGED <<loopVars, twiceVars, clientVars, otherVars>>
    \/ \E i \in Workers : ThreadJoin(i) /\ UNCHANGED <<loopVars, twiceVars, clientVars, otherVars>>
    \/ Record /\ UNCHANGED <<loopVars, twiceVars, clientVars, otherVars>>

SpecHarness == InitHarness /\ [][NextHarness]_vars

-----------------------------------------------------------------------------
(* One benchmark summary *)

\* One category of test_model_categories, one pair of
\* test_concurrent_performance or one parameter set of
\* test_parameter_optimization starts collecting its samples.
InitSummary ==
    /\ OnlySummary
    /\ bench \in {"category", "concurrent", "parameter"}
    /\ n_samples \in (IF bench = "parameter" THEN {ParameterRuns}
                      ELSE 0..MaxSamples)
    /\ samples = <<>>
    /\ bpc = "collect"
    /\ bsummary = NoBenchSummary

\* One more sample (advanced_model_testing.py:110-118, 164-191, 235-240).
Sample ==
    /\ bpc = "collect"
    /\ Len(samples) < n_samples
    /\ \E r \in SampleResults : samples' = Append(samples, r)
    /\ UNCHANGED <<bench, n_samples, bpc, bsummary>>

\* The summary over the samples collected.
SummarizeBench(kind, computed) ==
    /\ bpc = "collect"
    /\ bench = kind
    /\ Len(samples) = n_samples
    /\ bsummary' = computed
    /\ bpc' = "done"
    /\ UNCHANGED <<bench, n_samples, samples>>

SummarizeCategory == SummarizeBench("category", CategorySummary(samples))

SummarizeConcurrent == SummarizeBench("concurrent", ConcurrentSummary(samples))

SummarizeParameters == SummarizeBench("parameter", ParameterSummary(samples))

NextSummary ==
    \/ Sample /\ UNCHANGED exceptSummary
    \/ SummarizeCategory /\ UNCHANGED exceptSummary
    \/ SummarizeConcurrent /\ UNCHANGED exceptSummary
    \/ SummarizeParameters /\ UNCHANGED exceptSummary

SpecSummary == InitSummary /\ [][NextSummary]_vars

-----------------------------------------------------------------------------
(* One benchmark run *)

\* run_full_benchmark or run_comprehensive_test is entered.  Each pair runs
\* one iteration here; a model's sequential calls are represented by one.
InitRun ==
    /\ OnlyRun
    /\ harness \in {"ModelTester", "AdvancedModelTester"}
    /\ iterations = 1
    /\ hpc = "idle"
    /\ thread = [i \in Workers |-> "unstarted"]
    /\ reply = [i \in Workers |-> NoTransport]
    /\ results = [i \in Workers |-> PyNone]
    /\ finished = <<>>
    /\ concurrent_results = <<>>
    /\ actual = <<>>
    /\ summary = NoSummary
    /\ in_flight = 0
    /\ models_to_test = ModelsToTest(harness)
    /\ concurrent_combinations = <<>>
    /\ rpc = (IF harness = "ModelTester" THEN "models" ELSE "probe")
    /\ model_results = <<>>
    /\ pair_results = <<>>
    /\ model_actual = <<>>
    /\ rexception = ""

\* test_result = self.generate_response("llama3.1:8b", ...) is issued
\* (advanced_model_testing.py:260).
IssueProbe ==
    /\ rpc = "probe"
    /\ rpc' = "probing"
    /\ in_flight' = in_flight + 1
    /\ UNCHANGED <<models_to_test, concurrent_combinations, model_results, pair_results,
                   model_actual, rexception>>
    /\ UNCHANGED <<harness, iterations, hpc, thread, reply, results, finished,
                   concurrent_results, actual, summary>>

\* The probe returns: on success llama3.1:8b joins models_to_test
\* (advanced_model_testing.py:261-265).
ReturnProbe ==
    /\ rpc = "probing"
    /\ \E t \in Replies :
          IF tester_generate_response(t).success
          THEN models_to_test' = Append(models_to_test, "llama3.1:8b")
          ELSE models_to_test' = models_to_test
    /\ rpc' = "models"
    /\ in_flight' = in_flight - 1
    /\ UNCHANGED <<concurrent_combinations, model_results, pair_results,
                   model_actual, rexception>>
    /\ UNCHANGED <<harness, iterations, hpc, thread, reply, results, finished,
                   concurrent_results, actual, summary>>

\* for model in models_to_test: the call for the next model is issued
\* (model_memory_test.py:183-184 and 49; advanced_model_testing.py:271-282
\* and 111, 236).
IssueCall ==
    /\ rpc = "models"
    /\ Len(model_results) < Len(models_to_test)
    /\ rpc' = AfterIssue
    /\ in_flight' = in_flight + 1
    /\ UNCHANGED <<models_to_test, concurrent_combinations, model_results, pair_results,
                   model_actual, rexception>>
    /\ UNCHANGED <<harness, iterations, hpc, thread, reply, results, finished,
                   concurrent_results, actual, summary>>

\* The call returns and the result of the model is recorded
\* (model_memory_test.py:57-100 and 184; advanced_model_testing.py:73-98,
\* 112-118 and 279-282).
ReturnCall ==
    /\ rpc = "call"
    /\ \E t \in Replies :
          LET o == SequentialTry(harness, t)
              r == IF o.raises = "" THEN o.value ELSE PyFailure(o.raises)
          IN  IF o.raises = "" \/ SequentialCatches(harness, o.raises)
              THEN /\ model_results' = Append(model_results,
                          [model |-> models_to_test[Len(model_results) + 1],
                           success |-> r.success])
                   /\ model_actual' = Append(model_actual, Succeeded(t))
                   /\ rpc' = "models"
                   /\ rexception' = rexception
              ELSE /\ rpc' = "raised"
                   /\ rexception' = o.raises
                   /\ UNCHANGED <<model_results, model_actual>>
    /\ in_flight' = in_flight - 1
    /\ UNCHANGED <<models_to_test, concurrent_combinations, pair_results>>
    /\ UNCHANGED <<harness, iterations, hpc, thread, reply, results, finished,
                   concurrent_results, actual, summary>>

\* The loop over the models is over (model_memory_test.py:188-195;
\* advanced_model_testing.py:285-296).
EndModels ==
    /\ rpc = "models"
    /\ Len(model_results) = Len(models_to_test)
    /\ concurrent_combinations' = CombinationsFor(harness, models_to_test)
    /\ rpc' = "pairs"
    /\ UNCHANGED <<models_to_test, model_results, pair_results, model_actual,
                   rexception>>
    /\ UNCHANGED harnessVars

\* for model1, model2 in the list of pairs: the concurrent test of the next
\* pair is entered (model_memory_test.py:196-198;
\* advanced_model_testing.py:297-303).
EnterPair ==
    /\ rpc = "pairs"
    /\ Len(pair_results) < Len(concurrent_combinations)
    /\ rpc' = "pair"
    /\ hpc' = (IF harness = "ModelTester" THEN "start1" ELSE "for")
    /\ UNCHANGED <<models_to_test, concurrent_combinations, model_results, pair_results,
                   model_actual, rexception>>
    /\ UNCHANGED <<harness, iterations, thread, reply, results, finished,
                   concurrent_results, actual, summary, in_flight>>

\* The concurrent test has returned and its result is stored under the key
\* of the pair (model_memory_test.py:198; advanced_model_testing.py:303).
CollectPair ==
    /\ rpc = "pair"
    /\ hpc = "done"
    /\ pair_results' = Append(pair_results,
           [pair |-> concurrent_combinations[Len(pair_results) + 1],
            detailed_results |-> concurrent_results,
            summary |-> summary,
            actual |-> actual])
    /\ rpc' = "pairs"
    /\ hpc' = "idle"
    /\ PairReset
    /\ concurrent_results' = <<>>
    /\ actual' = <<>>
    /\ summary' = NoSummary
    /\ UNCHANGED <<models_to_test, concurrent_combinations, model_results, model_actual,
                   rexception>>
    /\ UNCHANGED <<harness, iterations, in_flight>>

\* The list of pairs is exhausted: the run returns.
EndRun ==
    /\ rpc = "pairs"
    /\ Len(pair_results) = Len(concurrent_combinations)
    /\ rpc' = "done"
    /\ UNCHANGED <<models_to_test, concurrent_combinations, model_results, pair_results,
                   model_actual, rexception>>
    /\ UNCHANGED harnessVars

NextRun ==
    \/ IssueProbe /\ UNCHANGED exceptRun
    \/ ReturnProbe /\ UNCHANGED exceptRun
    \/ IssueCall /\ UNCHANGED exceptRun
    \/ ReturnCall /\ UNCHANGED exceptRun
    \/ EndModels /\ UNCHANGED exceptRun
    \/ EnterPair /\ UNCHANGED exceptRun
    \/ ForPair /\ UNCHANGED <<runVars, exceptRun>>
    \/ Summarize /\ UNCHANGED <<runVars, exceptRun>>
    \/ \E i \in Workers : Start(i) /\ UNCHANGED <<runVars, exceptRun>>
    \/ \E i \in Workers : Complete(i) /\ UNCHANGED <<runVars, exceptRun>>
    \/ \E i \in Workers : ThreadJoin(i) /\ UNCHANGED <<runVars, exceptRun>>
    \/ Record /\ UNCHANGED <<runVars, exceptRun>>
    \/ CollectPair /\ UNCHANGED exceptRun
    \/ EndRun /\ UNCHANGED exceptRun

SpecRun == InitRun /\ [][NextRun]_vars

-----------------------------------------------------------------------------
(* One call of calculate_quality_metrics *)

InitQuality ==
    /\ OnlyQuality
    /\ q_words \in WordCounts
    /\ q_unclear \in 0..MaxUnclear
    /\ q_phrases \in 0..MaxPhrases
    /\ q_response = ResponseOf(q_words, q_unclear, q_phrases)
    /\ qpc = "call"
    /\ quality = NoQuality

\* advanced_model_testing.py:142-156.
CalculateQuality ==
    /\ qpc = "call"
    /\ quality' = calculate_quality_metrics(q_response)
    /\ qpc' = "done"
    /\ UNCHANGED <<q_words, q_unclear, q_phrases, q_response>>

NextQuality == CalculateQuality /\ UNCHANGED exceptQuality

SpecQuality == InitQuality /\ [][NextQuality]_vars

-----------------------------------------------------------------------------
(* Repeated calls of a score function *)

InitScore ==
    /\ OnlyScore
    /\ s_scorer \in {"OptimizationLoop", "PromptOptimizationPipeline"}
    /\ s_a \in ScoreTexts
    /\ s_b \in ScoreTexts
    /\ s_values = <<>>

\* One more call of _calculate_improvement(s_a, s_b) (optimizer.py:104-108;
\* pipeline.py:111-123).
CallScore ==
    /\ Len(s_values) < MaxScoreCalls
    /\ s_values' = Append(s_values, Score(s_scorer, s_a, s_b))
    /\ UNCHANGED <<s_scorer, s_a, s_b>>

NextScore == CallScore /\ UNCHANGED exceptScore

SpecScore == InitScore /\ [][NextScore]_vars

-----------------------------------------------------------------------------
(* StorageManager: saves, then one load *)

\* A StorageManager on an empty directory (storage_manager.py:8-17).
InitStorage ==
    /\ OnlyStorage
    /\ st_files = {}
    /\ st_saved = <<>>
    /\ st_limit = 0
    /\ st_loaded = <<>>
    /\ stpc = "saving"

\* save_optimization_result (storage_manager.py:19-35).
SaveOptimizationResult ==
    /\ stpc = "saving"
    /\ Len(st_saved) < MaxSaves
    /\ \E timestamp \in Ticks :
          LET r == TestResult(Len(st_saved) + 1) IN
          /\ st_files' = Write(st_files, timestamp, JsonDump(r))
          /\ st_saved' = Append(st_saved, r)
    /\ UNCHANGED <<st_limit, st_loaded, stpc>>

\* load_recent_results(limit) (storage_manager.py:37-66).
LoadRecentResults ==
    /\ stpc = "saving"
    /\ \E limit \in 0..MaxLimit :
          /\ st_limit' = limit
          /\ st_loaded' = load_recent_results(st_files, limit)
    /\ stpc' = "loaded"
    /\ UNCHANGED <<st_files, st_saved>>

NextStorage ==
    \/ SaveOptimizationResult /\ UNCHANGED exceptStorage
    \/ LoadRecentResults /\ UNCHANGED exceptStorage

SpecStorage == InitStorage /\ [][NextStorage]_vars

-----------------------------------------------------------------------------
(* The optimization request of one round *)

\* optimize_prompt(prompt, task_type) has its executor response and is about
\* to build the request (optimizer.py:19-23, 44-49).  The templates file
\* defines "general" and any of the other task types.
InitRequest ==
    /\ OnlyRequest
    /\ rq_prompt \in RequestPrompts
    /\ rq_task_type \in TaskTypes \cup {NoTaskType}
    /\ rq_response \in RequestResponses
    /\ rq_templates \in {ts \in SUBSET TaskTypes : "general" \in ts}
    /\ rq_request = NoRequest
    /\ rqpc = "build"

\* self._create_optimization_prompt(current_prompt, response["response"])
\* (optimizer.py:46-49).
CreateOptimizationPrompt ==
    /\ rqpc = "build"
    /\ rq_request' = create_optimization_prompt(rq_templates, rq_prompt,
                                                rq_response)
    /\ rqpc' = "built"
    /\ UNCHANGED <<rq_prompt, rq_task_type, rq_response, rq_templates>>

NextRequest == CreateOptimizationPrompt /\ UNCHANGED exceptRequest

SpecRequest == InitRequest /\ [][NextRequest]_vars

-----------------------------------------------------------------------------
(* Properties of optimize_prompt *)

\* The indices of the rounds whose Evaluate step accepted the candidate.
AcceptedRounds == {i \in DOMAIN evals : evals[i].accepted}

\* The last Evaluate step taken rejected its candidate.
Rejected == Len(evals) > 0 /\ ~evals[Len(evals)].accepted

\* A zero-round result: round count 0, score 0.0, the original prompt kept.
IsZeroRoundResult(r) ==
    /\ r.kind = "result"
    /\ r.iterations = 0
    /\ r.improvement_score = Zero
    /\ r.original_prompt = prompt
    /\ r.optimized_prompt = prompt

\* C1: every result returned by optimize_prompt has improvement_score >= 0.0,
\* and a result with round count 0 has optimized_prompt = original_prompt.
C1_ResultInvariant ==
    pc = "done" =>
        /\ result.kind = "result"
        /\ RatGE(result.improvement_score, Zero)
        /\ (result.iterations = 0 =>
                result.optimized_prompt = result.original_prompt)

\* C1 witness: a zero-round result returned after a round whose candidate
\* was tried and rejected.
C1_Witness ==
    /\ pc = "done"
    /\ result.iterations = 0
    /\ Rejected
    /\ new_prompt # prompt

\* C2: when the executor call on the current prompt fails, in any round, the
\* call does not raise and returns the best candidate so far, or a zero-round
\* result if there is none.
C2_ExecutorFailureReturns ==
    response.kind = "none" =>
        /\ pc # "raised"
        /\ pc = "done" =>
              IF best_result.kind = "result"
              THEN result = best_result
              ELSE IsZeroRoundResult(result)

\* C3: when the executor call on the candidate prompt fails, the call does
\* not raise and returns the best candidate so far, or a zero-round result
\* if there is none.
C3_CandidateFailureReturns ==
    new_response.kind = "none" =>
        /\ pc # "raised"
        /\ pc = "done" =>
              IF best_result.kind = "result"
              THEN result = best_result
              ELSE IsZeroRoundResult(result)

\* C4: when the optimizer call fails the loop stops without raising and
\* without a further Generation Client call; in the first round the result
\* is a zero-round result, in a later round it is the candidate accepted in
\* the round before.
C4_OptimizerFailureStops ==
    optimization_result.kind = "none" =>
        /\ pc \in {"return", "done"}
        /\ calls[Len(calls)].role = "optimizer"
        /\ ~calls[Len(calls)].ok
        /\ pc = "done" =>
              IF iteration = 0
              THEN IsZeroRoundResult(result)
              ELSE /\ result = best_result
                   /\ result.iterations = iteration
                   /\ result.optimized_prompt = current_prompt
                   /\ result.improvement_score = best_score
                   /\ evals[Len(evals)].accepted

\* C4 witness: the optimizer fails in the second round and the candidate of
\* the first round is returned.
C4_Witness ==
    /\ optimization_result.kind = "none"
    /\ pc = "done"
    /\ iteration = 1
    /\ result.iterations = 1

\* C5: with max_iterations = 0 the call returns a zero-round result and makes
\* no Generation Client call.
C5_ZeroIterationsReturns ==
    (max_iterations = 0 /\ Terminated) =>
        /\ pc = "done"
        /\ IsZeroRoundResult(result)
        /\ calls = <<>>

\* C6: optimize_prompt terminates, and it never starts more than
\* max_iterations rounds.
C6_TerminatesWithinBudget ==
    /\ <>Terminated
    /\ [](iteration + 1 <= max_iterations)

\* C6 witness: a run that used its whole budget, every round accepted.
C6_Witness ==
    /\ Terminated
    /\ max_iterations = MaxIterations
    /\ iteration + 1 = max_iterations
    /\ Cardinality(AcceptedRounds) = max_iterations

\* C7: the Evaluate step accepts exactly when
\* score > best_score + improvement_threshold; on acceptance best_score is
\* the score, current_prompt is the candidate prompt, the recorded result
\* holds the candidate prompt and control goes back to the loop head;
\* otherwise nothing is recorded and the loop is left.
C7_AcceptRule ==
    [][pc = "evaluate" =>
        IF score[1] * best_score[2] * improvement_threshold[2]
             > (best_score[1] * improvement_threshold[2]
                + improvement_threshold[1] * best_score[2]) * score[2]
        THEN /\ best_score' = score
             /\ current_prompt' = new_prompt
             /\ best_result'.kind = "result"
             /\ best_result'.optimized_prompt = new_prompt
             /\ best_result'.improvement_score = score
             /\ pc' = "for"
        ELSE /\ best_score' = best_score
             /\ current_prompt' = current_prompt
             /\ best_result' = best_result
             /\ pc' = "return"]_vars

\* C7 witness: the scenario of a 19-character executor response and a
\* 57-character candidate response with threshold 0.1: score 3.0, accepted,
\* round count 1.
C7_Witness ==
    /\ pc = "done"
    /\ prompt = "Tell me about AI"
    /\ improvement_threshold = <<1, 10>>
    /\ Len(result.initial_response) = 19
    /\ Len(result.final_response) = 57
    /\ result.improvement_score = <<3, 1>>
    /\ result.optimized_prompt = "Explain AI in depth"
    /\ result.iterations = 1

\* C8: from the Evaluate step that rejects a candidate on, no Generation
\* Client call is made and best_score, current_prompt and the recorded best
\* result stay what they were before that round.
C8_StopsAtFirstRejection ==
    [][Rejected' =>
        /\ calls' = calls
        /\ best_score' = best_score
        /\ current_prompt' = current_prompt
        /\ best_result' = best_result]_vars

\* C8 witness: a run that stopped at a rejection in its second round with a
\* round of budget left.
C8_Witness ==
    /\ Rejected
    /\ pc = "done"
    /\ iteration = 1
    /\ max_iterations > 2
    /\ result = best_result

\* C9 as claimed: the returned improvement_score is at least the score of
\* every round evaluated in the run.
C9_Original ==
    pc = "done" =>
        \A i \in DOMAIN evals :
            RatGE(result.improvement_score, evals[i].score)

\* C9 amended: for improvement_threshold >= 0, the returned
\* improvement_score is at least the score of every accepted round, and no
\* evaluated round scored more than improvement_score + improvement_threshold.
C9_BestWithinThreshold ==
    (pc = "done" /\ RatGE(improvement_threshold, Zero)) =>
        \A i \in DOMAIN evals :
            /\ evals[i].accepted =>
                   RatGE(result.improvement_score, evals[i].score)
            /\ RatGE(RatAdd(result.improvement_score, improvement_threshold),
                     evals[i].score)

\* C9 witness: a result returned after an accepted round and a rejected
\* second round that scored above the accepted one, within the threshold.
C9_Witness ==
    /\ pc = "done"
    /\ improvement_threshold = <<1, 10>>
    /\ Len(evals) = 2
    /\ evals[1].accepted
    /\ ~evals[2].accepted
    /\ RatGT(evals[2].score, result.improvement_score)

\* C10: the round count of the result is the number of rounds of the run
\* that accepted an improvement.
C10_RoundCount ==
    pc = "done" => result.iterations = Cardinality(AcceptedRounds)

\* C10 witness: two accepted rounds and a rejected third.
C10_Witness ==
    /\ pc = "done"
    /\ result.iterations = 2
    /\ Len(evals) = 3
    /\ Rejected

\* C11 as claimed: the score is len(candidate) / len(original) when the
\* original response is not empty and 0.0 when it is empty, and computing it
\* raises no error.
C11_ScoreDefinition ==
    /\ exception # "ZeroDivisionError"
    /\ pc = "evaluate" =>
          score = IF Len(response.response) > 0
                  THEN Ratio(Len(new_response.response),
                             Len(response.response))
                  ELSE Zero

\* C13: the executor call that opens a round is issued when every earlier
\* round has been evaluated and accepted, right after the three calls of the
\* round before, and its prompt is the candidate prompt accepted in the round
\* before (the original prompt in the first round).
C13_RoundsInSequence ==
    [][pc = "executor" =>
        /\ Len(evals) = iteration
        /\ \A i \in DOMAIN evals : evals[i].accepted
        /\ Len(calls) = 3 * iteration
        /\ Len(calls') = Len(calls) + 1
        /\ calls'[Len(calls')].role = "executor"
        /\ calls'[Len(calls')].prompt =
              IF iteration = 0 THEN prompt ELSE best_result.optimized_prompt
        /\ iteration > 0 =>
              /\ best_result.iterations = iteration
              /\ calls[Len(calls)].role = "executor"
              /\ calls[Len(calls)].prompt = best_result.optimized_prompt]_vars

\* C13 witness: the executor call of the second round has been issued with
\* the candidate prompt accepted in the first round.
C13_Witness ==
    /\ pc = "optimizer"
    /\ iteration = 1
    /\ Len(calls) = 4
    /\ Len(evals) = 1
    /\ calls[4].prompt = "Explain AI in depth"
    /\ calls[4].prompt # prompt

\* C12: with a Generation Service that answers each request the same way
\* every time, a second call of optimize_prompt with the same arguments ends
\* as the first did: the same result (or the same exception) after the same
\* sequence of Generation Client calls.
C12_SecondCallRepeatsFirst ==
    (run = 2 /\ Terminated) =>
        /\ pc = first.pc
        /\ result = first.result
        /\ exception = first.exception
        /\ calls = first.calls

\* C12 witness: both calls returned a result of two accepted rounds.
C12_Witness ==
    /\ run = 2
    /\ pc = "done"
    /\ first.pc = "done"
    /\ result.iterations = 2
    /\ Len(calls) >= 6

-----------------------------------------------------------------------------
(* Properties of the Generation Clients *)

\* No line of the body holds a JSON value.
Unparsable(body) == \A i \in DOMAIN body : body[i].json \in {"invalid", "blank"}

\* The request failed: no connection, deadline passed, a status other than
\* 200, or a body that decodes neither as a whole nor line by line.
TransportFailed(t) ==
    \/ t.kind \in {"connection_error", "timeout"}
    \/ t.kind = "response" /\ t.status # 200
    \/ t.kind = "response" /\ Unparsable(t.body)

\* The failure value of the client: None, or a dict with success False.
IsFailureValue(v) ==
    IF client = "OllamaAPI" THEN v.kind = "none"
    ELSE v.kind = "record" /\ ~v.success

\* C14: generate_response never raises to its caller, and after a failed
\* request it returns the client's failure value.
C14_NeverRaises ==
    /\ cpc # "raised"
    /\ craised = ""
    /\ (cpc = "returned" /\ TransportFailed(transport)) =>
           IsFailureValue(returned)

\* C14 witness: OllamaAPI returned None for a 200 answer whose two lines are
\* a JSON number and text that is no JSON (the AttributeError of the
\* fallback was caught).
C14_Witness ==
    /\ cpc = "returned"
    /\ client = "OllamaAPI"
    /\ transport.kind = "response"
    /\ transport.status = 200
    /\ Len(transport.body) = 2
    /\ transport.body[1].json = "scalar"
    /\ transport.body[2].json = "invalid"
    /\ returned.kind = "none"

\* The error kind the taxonomy gives to a failed request.
ErrorKind(t) ==
    IF t.kind = "timeout" THEN "timeout"
    ELSE IF t.kind = "connection_error" THEN "network_error"
    ELSE IF t.status # 200 THEN "bad_status"
    ELSE "decode_error"

\* C15 as claimed: a failed call returns a result carrying the error kind of
\* its cause, one of network_error, bad_status, decode_error and timeout; a
\* successful result carries response text and no error kind.
C15_ErrorKinds ==
    cpc = "returned" =>
        IF TransportFailed(transport)
        THEN /\ IsFailureValue(returned)
             /\ returned.error = ErrorKind(transport)
        ELSE returned.error = ""

\* The fragments of the object lines 1..n of the body, concatenated in order.
RECURSIVE FragmentsUpTo(_, _)
FragmentsUpTo(body, n) ==
    IF n = 0 THEN ""
    ELSE FragmentsUpTo(body, n - 1) \o
         (IF body[n].json = "object" /\ body[n].has_response
          THEN body[n].response ELSE "")

\* The body is not one JSON value: it holds text that is no JSON, or not
\* exactly one non-blank line.
NotOneJsonValue(body) ==
    \/ \E i \in DOMAIN body : body[i].json = "invalid"
    \/ Cardinality({i \in DOMAIN body : body[i].json # "blank"}) # 1

C17_OneRequest ==
    /\ requests_sent <= 1
    /\ cpc \in {"sent", "returned", "raised"} => requests_sent = 1

\* C17 witness: a call that failed with status 500 has returned after one
\* request.
C17_Witness ==
    /\ cpc = "returned"
    /\ transport.kind = "response"
    /\ transport.status = 500
    /\ IsFailureValue(returned)
    /\ requests_sent = 1

-----------------------------------------------------------------------------
(* Properties of concurrent profiling *)

LastRecorded == concurrent_results[Len(concurrent_results)]

\* C18: in every recorded pair model1_success and model2_success are the
\* actual outcomes of the two calls, and the overall flag is true exactly
\* when both calls succeeded, in whichever order the calls completed.
C18_SuccessFlags ==
    /\ Len(actual) = Len(concurrent_results)
    /\ \A k \in DOMAIN concurrent_results :
          LET r == concurrent_results[k] IN
          /\ r.model1_success = actual[k][1]
          /\ r.model2_success = actual[k][2]
          /\ r.overall_success = (actual[k][1] /\ actual[k][2])

\* C18 witness: the second call completed first and failed with status 500,
\* the first succeeded; the pair is recorded as (True, False, overall False).
C18_Witness ==
    /\ hpc \in {"for", "done"}
    /\ concurrent_results # <<>>
    /\ finished = <<2, 1>>
    /\ Succeeded(reply[1])
    /\ reply[2].kind = "response"
    /\ reply[2].status = 500
    /\ LastRecorded.model1_success
    /\ ~LastRecorded.model2_success
    /\ ~LastRecorded.overall_success

\* C19: a combined result is recorded only when both workers have ended, with
\* the success each worker left; a call in flight ends only by completing,
\* and the completion of one call (failed, timed out or not) leaves the
\* other call and its result as they were.
C19_WaitsForBoth ==
    [][/\ Len(concurrent_results') > Len(concurrent_results) =>
              /\ thread[1] = "done"
              /\ thread[2] = "done"
              /\ concurrent_results'[Len(concurrent_results')].model1_success
                     = results[1].success
              /\ concurrent_results'[Len(concurrent_results')].model2_success
                     = results[2].success
       /\ \A i \in Workers :
              thread[i] = "inflight" => thread'[i] \in {"inflight", "done"}
       /\ \A i \in Workers :
              (thread[i] = "inflight" /\ thread'[i] = "done") =>
                  /\ thread'[3 - i] = thread[3 - i]
                  /\ results'[3 - i] = results[3 - i]
                  /\ reply'[3 - i] = reply[3 - i]]_vars

\* C19 witness: the first call timed out, the second completed after that and
\* succeeded, and the pair was recorded as (False, True).
C19_Witness ==
    /\ hpc \in {"for", "done"}
    /\ concurrent_results # <<>>
    /\ finished = <<1, 2>>
    /\ reply[1].kind = "timeout"
    /\ Succeeded(reply[2])
    /\ ~LastRecorded.model1_success
    /\ LastRecorded.model2_success

\* C20: the second call can be started while the first is in flight, both
\* calls have been started when the harness waits for the first, and with
\* both in flight either may complete first.
C20_CallsOverlap ==
    /\ hpc = "start2" => ENABLED Start(2)
    /\ hpc \in {"join1", "join2", "record"} =>
           \A i \in Workers : thread[i] # "unstarted"
    /\ (\A i \in Workers : thread[i] = "inflight") =>
           \A i \in Workers : ENABLED Complete(i)

\* C20 witness: the harness waits for the first call with both in flight.
C20_Witness ==
    /\ hpc = "join1"
    /\ thread[1] = "inflight"
    /\ thread[2] = "inflight"

-----------------------------------------------------------------------------
(* Properties of the benchmark summaries *)

SuccessfulSamples == SelectSeq(samples, LAMBDA r : r.success)

\* C21 as claimed: every summary is produced, without error, over the
\* successful samples only; when no sample succeeded (also when there is no
\* sample) it reports success_rate 0 and no statistics, otherwise the share
\* of successful samples and the mean over them.
C21_SummaryOverSuccessful ==
    bpc = "done" =>
        IF SuccessfulSamples = <<>>
        THEN /\ bsummary.kind = "rate_only"
             /\ bsummary.success_rate = Zero
        ELSE /\ bsummary.kind = "statistics"
             /\ bsummary.success_rate =
                    Ratio(Len(SuccessfulSamples), Len(samples))
             /\ bench # "concurrent" =>
                    bsummary.avg_response_length =
                        Ratio(SumLengths(SuccessfulSamples),
                              Len(SuccessfulSamples))

-----------------------------------------------------------------------------
(* Properties of a benchmark run *)

\* C22: the run is never ended by an exception; the results recorded so far
\* are those of the first models and the first pairs of the lists, in list
\* order, each with the actual outcome of its calls (a failed call is a
\* failed sample); the pairs are reached with every model recorded and the
\* run ends with every pair recorded.
C22_VisitsAll ==
    /\ rpc # "raised"
    /\ rexception = ""
    /\ Len(model_results) <= Len(models_to_test)
    /\ \A k \in DOMAIN model_results :
          /\ model_results[k].model = models_to_test[k]
          /\ model_results[k].success = model_actual[k]
    /\ Len(pair_results) <= Len(concurrent_combinations)
    /\ \A k \in DOMAIN pair_results :
          LET p == pair_results[k] IN
          /\ p.pair = concurrent_combinations[k]
          /\ Len(p.detailed_results) = 1
          /\ p.detailed_results[1].model1_success = p.actual[1][1]
          /\ p.detailed_results[1].model2_success = p.actual[1][2]
    /\ rpc \in {"pairs", "pair", "done"} =>
           Len(model_results) = Len(models_to_test)
    /\ rpc = "done" => Len(pair_results) = Len(concurrent_combinations)

\* C22 witness: run_full_benchmark has ended; the call of the first model
\* failed and the second model was tested all the same, the first pair
\* failed and the second pair succeeded.
C22_Witness ==
    /\ rpc = "done"
    /\ harness = "ModelTester"
    /\ Len(model_results) = 2
    /\ ~model_results[1].success
    /\ model_results[2].success
    /\ Len(pair_results) = 2
    /\ ~pair_results[1].detailed_results[1].overall_success
    /\ pair_results[2].detailed_results[1].overall_success

\* C26: at most two Generation calls are in flight while a pair is tested
\* concurrently, and at most one at any other point of the run.
C26_InFlightBound ==
    /\ in_flight \in 0..2
    /\ rpc # "pair" => in_flight <= 1

\* C26 witness: in run_comprehensive_test, after the sequential calls of the
\* models, both calls of a pair are in flight.
C26_Witness ==
    /\ harness = "AdvancedModelTester"
    /\ rpc = "pair"
    /\ Len(model_results) = Len(models_to_test)
    /\ in_flight = 2
    /\ \A i \in Workers : thread[i] = "inflight"

-----------------------------------------------------------------------------
(* Properties of calculate_quality_metrics *)

\* The words and the occurrences the response was built with.
WordsSaid == q_words + q_unclear + 3 * q_phrases

Occurrences == q_unclear + q_phrases

\* 150 times the average of 1, min(1, words / 50) and 1 - 0.2 * occurrences.
Average150 ==
    100 + (IF WordsSaid < 50 THEN WordsSaid ELSE 50) - 10 * Occurrences

\* C23: quality_score lies in [0, 1] and is the average of relevance 1.0,
\* completeness min(1.0, word_count / 50) and clarity 1.0 - 0.2 * (number of
\* "unclear" plus number of "I don't know"), clamped to [0, 1]; the
\* completeness is 1.0 from 50 words on.
C23_QualityScore ==
    qpc = "done" =>
        /\ RatGE(quality.quality_score, Zero)
        /\ RatGE(<<1, 1>>, quality.quality_score)
        /\ quality.word_count = WordsSaid
        /\ quality.quality_score =
               (IF Average150 <= 0 THEN Zero
                ELSE IF Average150 >= 150 THEN <<1, 1>>
                ELSE Ratio(Average150, 150))
        /\ WordsSaid >= 50 => quality.completeness_score = <<1, 1>>
        /\ WordsSaid < 50 =>
               quality.completeness_score = Ratio(WordsSaid, 50)

\* C23 witness: a response of twelve words, all "unclear", whose average is
\* below 0 and is clamped to 0.
C23_Witness ==
    /\ qpc = "done"
    /\ q_words = 0
    /\ q_unclear = 12
    /\ q_phrases = 0
    /\ quality.clarity_score = <<-7, 5>>
    /\ quality.quality_score = Zero

-----------------------------------------------------------------------------
(* Properties of the score functions *)

-----------------------------------------------------------------------------
(* Properties of StorageManager *)

\* C25 as claimed: after k saves load_recent_results(limit) returns
\* min(limit, k) results, the most recently saved first, each as it was
\* saved.
C25_LoadsRecentSaves ==
    stpc = "loaded" =>
        LET k == Len(st_saved) IN
        /\ Len(st_loaded) = (IF st_limit < k THEN st_limit ELSE k)
        /\ \A i \in DOMAIN st_loaded :
              /\ st_loaded[i].original_prompt =
                     st_saved[k + 1 - i].original_prompt
              /\ st_loaded[i].optimized_prompt =
                     st_saved[k + 1 - i].optimized_prompt
              /\ st_loaded[i].improvement_score =
                     st_saved[k + 1 - i].improvement_score

-----------------------------------------------------------------------------
(* Properties of the optimization request *)

\* C27 as claimed: the optimization request is built from the current
\* prompt, the executor's response to it, and the task type the caller of
\* optimize_prompt supplied (when the templates define that type).
C27_RequestFromCallerTaskType ==
    rqpc = "built" =>
        /\ rq_request.original_prompt = rq_prompt
        /\ rq_request.model_response = rq_response
        /\ rq_task_type \in rq_templates =>
               rq_request.task_type = rq_task_type

\* The part of C27 that the code does: the request is built from the
\* current prompt and the executor's response.
RequestFromPromptAndResponse ==
    rqpc = "built" =>
        /\ rq_request.original_prompt = rq_prompt
        /\ rq_request.model_response = rq_response

-----------------------------------------------------------------------------
(* Properties of the order of the Generation Client calls *)

\* C28: the calls of a run come in rounds of executor(current prompt),
\* optimizer(request built from that prompt), executor(candidate prompt);
\* a call other than the first of its round follows a successful call of
\* the same round, so the optimizer is not called after a failed executor
\* call; there are at most three calls per round and at most
\* 3 * max_iterations calls in a run.
C28_CallOrder ==
    /\ Len(calls) <= 3 * max_iterations
    /\ iteration >= 0 =>
          /\ Len(calls) <= 3 * (iteration + 1)
          /\ Len(calls) >= 3 * iteration
    /\ \A i \in DOMAIN calls :
          LET k == (i - 1) % 3 IN
          /\ k = 0 => calls[i].role = "executor"
          /\ k = 1 => /\ calls[i].role = "optimizer"
                      /\ calls[i - 1].ok
                      /\ calls[i].prompt = calls[i - 1].prompt
          /\ k = 2 => /\ calls[i].role = "executor"
                      /\ calls[i - 1].ok
    /\ pc = "optimizer" => calls[Len(calls)].prompt = current_prompt
    /\ pc = "score" =>
          /\ Len(calls) = 3 * (iteration + 1)
          /\ calls[Len(calls)].prompt = optimization_result.response

\* C28 witness: a run of three rounds has returned after nine calls, the
\* last two being the optimizer call and the candidate's executor call of
\* the third round.
C28_Witness ==
    /\ pc = "done"
    /\ max_iterations = 3
    /\ Len(calls) = 9
    /\ calls[8].role = "optimizer"
    /\ calls[9].role = "executor"

-----------------------------------------------------------------------------
(* Properties of the responses of a result *)

\* C30: in a returned result, final_response is the reply of an executor
\* call on the returned optimized_prompt, and initial_response is the reply
\* of the executor call that opened the round the result comes from, on the
\* prompt current in that round: the last accepted round, or the first round
\* when none was accepted.  Both replies are of calls of that one round.
C30_ResponsesOfOneRound ==
    pc = "done" =>
        IF result.iterations > 0
        THEN LET r == result.iterations - 1
                 opening == calls[3 * r + 1]
                 trying == calls[3 * r + 3]
             IN  /\ evals[r + 1].accepted
                 /\ \A j \in DOMAIN evals : j > r + 1 => ~evals[j].accepted
                 /\ opening.role = "executor"
                 /\ opening.prompt =
                        (IF r = 0 THEN prompt ELSE calls[3 * r].prompt)
                 /\ result.initial_response = opening.reply
                 /\ trying.role = "executor"
                 /\ trying.prompt = result.optimized_prompt
                 /\ result.final_response = trying.reply
        ELSE /\ \A j \in DOMAIN evals : ~evals[j].accepted
             /\ calls[1].role = "executor"
             /\ calls[1].prompt = prompt
             /\ result.optimized_prompt = prompt
             /\ result.initial_response = calls[1].reply
             /\ result.final_response = calls[1].reply

\* C30 witness: the result of the first round is returned after a second
\* round whose executor answered its prompt differently and whose candidate
\* was rejected.
C30_Witness ==
    /\ pc = "done"
    /\ result.iterations = 1
    /\ Len(calls) = 6
    /\ calls[4].prompt = result.optimized_prompt
    /\ calls[4].reply # result.final_response
    /\ calls[4].reply # result.initial_response
    /\ result.initial_response # result.final_response

-----------------------------------------------------------------------------
(* Properties of the shared results dictionary of test_concurrent_models *)

\* C29: in ModelTester.test_concurrent_models a key of the shared results
\* dictionary changes only when its own worker ends, from None to the value
\* that worker computed from its reply, and never again; after both joins
\* both keys are set, and the three reported flags are determined by the two
\* replies alone, whichever worker ended first.
C29_OwnKeyOnce ==
    [][harness = "ModelTester" =>
        /\ \A i \in Workers :
              /\ results'[i] # results[i] =>
                    /\ thread[i] = "inflight"
                    /\ thread'[i] = "done"
                    /\ results[i] = PyNone
                    /\ results'[i] = run_model(reply'[i])
                    /\ results'[3 - i] = results[3 - i]
              /\ (thread[i] = "inflight" /\ thread'[i] = "done") =>
                    results'[i] # PyNone
              /\ thread[i] = "done" =>
                    /\ thread'[i] = "done"
                    /\ results'[i] = results[i]
        /\ hpc' \in {"record", "done"} =>
              \A i \in Workers : results'[i] # PyNone
        /\ Len(concurrent_results') > Len(concurrent_results) =>
              LET r == concurrent_results'[Len(concurrent_results')] IN
              /\ r.model1_success = run_model(reply[1]).success
              /\ r.model2_success = run_model(reply[2]).success
              /\ r.overall_success = (run_model(reply[1]).success
                                      /\ run_model(reply[2]).success)]_vars

\* C29 witness: test_concurrent_models has reported a pair in which the
\* second thread wrote its key before the first; both keys are set and both
\* calls succeeded.
C29_Witness ==
    /\ harness = "ModelTester"
    /\ hpc = "done"
    /\ finished = <<2, 1>>
    /\ results[1] # PyNone
    /\ results[2] # PyNone
    /\ results[1].success
    /\ results[2].success
    /\ concurrent_results[1].overall_success

=============================================================================
